---- MODULE Spec2Model ----
(***************************************************************************)
(* Model of the two helpers of the backend:                                *)
(*   validate      (async wrapper around a zod validator's safeParse /     *)
(*                  safeParseAsync)                                        *)
(*   ExpressError  (Error subclass carrying statusCode and isOperational)  *)
(***************************************************************************)
EXTENDS Integers, Sequences, FiniteSets, TLC

(* ------------------------------ bounds --------------------------------- *)
\* number of validate calls a behaviour makes
MaxCalls == 2
\* number of ExpressError objects a behaviour constructs
MaxErrors == 2

Calls == 1..MaxCalls

(* ------------------------------ inputs --------------------------------- *)
\* input values handed to validate as `data`
Data == {"valid", "strAge", "null"}

\* the third argument of validate: left out, or an object with an async flag
Options ==
  { [given |-> FALSE, async |-> FALSE],
    [given |-> TRUE,  async |-> FALSE],
    [given |-> TRUE,  async |-> TRUE] }

\* validators handed to validate (zod schemas, named by what they check)
Validators == {"person", "coerced", "nested", "asyncCheck"}

NoData == "none"
NoThrow == "none"

MsgNumber == "Expected number, received string"
MsgObject == "Expected object, received null"
MsgRequired == "Required"
MsgCustom == "Invalid input"
MsgAsyncInSync == "Async refinement encountered during synchronous parse operation. Use .parseAsync instead."
MsgLookup == "lookup failed"

Issue(path, message) == [path |-> path, message |-> message]

RECURSIVE JoinPath(_, _)
JoinPath(path, i) ==
  IF i > Len(path) THEN ""
  ELSE path[i] \o (IF i < Len(path) THEN "," ELSE "") \o JoinPath(path, i + 1)

RECURSIVE RenderIssues(_, _)
RenderIssues(issues, i) ==
  IF i > Len(issues) THEN ""
  ELSE "{path:[" \o JoinPath(issues[i].path, 1) \o "],message:" \o issues[i].message \o "}"
       \o RenderIssues(issues, i + 1)

\* ZodError.message: the issues rendered as JSON text
ErrorMessage(issues) == "[" \o RenderIssues(issues, 1) \o "]"

Ok(out) == [kind |-> "result", success |-> TRUE, data |-> out, issues |-> <<>>, thrown |-> NoThrow]
Fail(issues) == [kind |-> "result", success |-> FALSE, data |-> NoData, issues |-> issues, thrown |-> NoThrow]
Throws(msg) == [kind |-> "throw", success |-> FALSE, data |-> NoData, issues |-> <<>>, thrown |-> msg]

\* what the schema itself decides, before any asynchronous refinement
BaseParse(v, d) ==
  CASE v = "person" ->
         CASE d = "valid"  -> Ok("valid")
           [] d = "strAge" -> Fail(<<Issue(<<"age">>, MsgNumber)>>)
           [] OTHER        -> Fail(<<Issue(<<>>, MsgObject)>>)
    [] v = "coerced" ->
         CASE d = "valid"  -> Ok("valid")
           [] d = "strAge" -> Ok("valid")
           [] OTHER        -> Fail(<<Issue(<<>>, MsgObject)>>)
    [] v = "nested" ->
         CASE d = "valid"  -> Ok("valid")
           [] d = "strAge" -> Fail(<<Issue(<<"user", "age">>, MsgNumber),
                                     Issue(<<"id">>, MsgRequired),
                                     Issue(<<"user", "name">>, MsgRequired)>>)
           [] OTHER        -> Fail(<<Issue(<<"age", "value">>, MsgNumber)>>)
    [] OTHER -> Ok(d)

\* validator.safeParse(data)
SafeParse(v, d) ==
  IF v = "asyncCheck" THEN Throws(MsgAsyncInSync) ELSE BaseParse(v, d)

\* the value the promise of validator.safeParseAsync(data) settles with
SafeParseAsync(v, d) ==
  IF v = "asyncCheck"
    THEN CASE d = "valid"  -> Ok("valid")
           [] d = "strAge" -> Fail(<<Issue(<<>>, MsgCustom)>>)
           [] OTHER        -> Throws(MsgLookup)
    ELSE BaseParse(v, d)

(* ------------------------- ZodError.flatten() -------------------------- *)
\* variant: the message is put in front of the field's list
FlattenStepUnshift(fieldErrors, sub) ==
  IF Len(sub.path) > 0
    THEN LET k == sub.path[1]
             old == IF k \in DOMAIN fieldErrors THEN fieldErrors[k] ELSE <<>>
         IN  [x \in (DOMAIN fieldErrors) \cup {k} |->
                IF x = k THEN <<sub.message>> \o old ELSE fieldErrors[x]]
    ELSE fieldErrors

\* one step of flatten's loop: an issue with a path is pushed under the
\* first segment of its path; an issue without a path goes to formErrors
FlattenStep(fieldErrors, sub) ==
  IF Len(sub.path) > 0
    THEN LET k == sub.path[1]
             old == IF k \in DOMAIN fieldErrors THEN fieldErrors[k] ELSE <<>>
         IN  [x \in (DOMAIN fieldErrors) \cup {k} |->
                IF x = k THEN Append(old, sub.message) ELSE fieldErrors[x]]
    ELSE fieldErrors

RECURSIVE FlattenFrom(_, _, _)
FlattenFrom(issues, i, fieldErrors) ==
  IF i > Len(issues) THEN fieldErrors
  ELSE FlattenFrom(issues, i + 1, FlattenStep(fieldErrors, issues[i]))

EmptyRecord == [x \in {} |-> <<>>]

\* result.error.flatten().fieldErrors
FieldErrors(issues) == FlattenFrom(issues, 1, EmptyRecord)

(* ------------------------------ validate ------------------------------- *)
VARIABLES calls, log, parseCalls, errs

vars == <<calls, log, parseCalls, errs>>

\* variant: the default of the third parameter is { async: true }
AsyncParamDefaultTrue(options) == IF options.given THEN options.async ELSE TRUE

\* the destructured parameter `{ async } = { async: false }`
AsyncParam(options) == IF options.given THEN options.async ELSE FALSE

\* which parse operation line 23 selects
UseAsync(options) == AsyncParam(options)

\* variant: the validator's own message is returned
FailureMessageLeak(result) == ErrorMessage(result.issues)

\* the message of the failure branch (line 33)
FailureMessage(result) == "Validation failed"

\* the errors returned by a failed call that has already finished, if any
PriorErrors ==
  LET failed == {b \in Calls : /\ calls[b].pc = "done"
                                /\ calls[b].settled = "fulfilled"
                                /\ ~calls[b].value.success}
  IN  IF failed = {} THEN EmptyRecord ELSE calls[CHOOSE b \in failed : TRUE].value.errors

\* variant: the field errors are collected in a module-level record that is
\* never reset, so a call adds its errors to those of a call before it
FailureOutcomeAccumulated(result) ==
  [success |-> FALSE, message |-> FailureMessage(result),
   errors |-> FlattenFrom(result.issues, 1, PriorErrors)]

\* the object returned on the failure branch
FailureOutcome(result) ==
  [success |-> FALSE, message |-> FailureMessage(result),
   errors |-> FieldErrors(result.issues)]

\* variant: a property the result does not have is read
SuccessOutcomeUndefined(result) == [success |-> TRUE, data |-> NoData]

\* the object returned on the success branch
SuccessOutcome(result) == [success |-> TRUE, data |-> result.data]

\* variant: the console.error line is missing
LogLinesSilent(c, result) == <<>>

\* what the call logs with console.error for a parse result
LogLines(c, result) ==
  IF ~result.success
    THEN <<[args |-> <<"Validation failed:", ErrorMessage(result.issues)>>, by |-> c]>>
    ELSE <<>>

\* lines 28-40: the value validate returns for a parse result
Outcome(result) ==
  IF ~result.success THEN FailureOutcome(result) ELSE SuccessOutcome(result)

\* variant: validator and data are kept in module-level variables, which
\* the latest invocation overwrites
ParseArgsShared(c) ==
  LET last == CHOOSE b \in Calls :
                /\ calls[b].pc # "idle"
                /\ \A a \in Calls : a > b => calls[a].pc = "idle"
  IN  [validator |-> calls[last].validator, data |-> calls[last].data]

\* the arguments the parse operation of call c is applied to
ParseArgs(c) == [validator |-> calls[c].validator, data |-> calls[c].data]

Idle == [pc |-> "idle", validator |-> "none", data |-> "none",
         options |-> [given |-> FALSE, async |-> FALSE],
         awaited |-> Throws(NoThrow), settled |-> "none",
         value |-> [success |-> FALSE, message |-> "none", errors |-> EmptyRecord],
         reason |-> NoThrow]

Init ==
  /\ calls = [c \in Calls |-> Idle]
  /\ log = <<>>
  /\ parseCalls = [c \in Calls |-> [sync |-> 0, async |-> 0]]
  /\ errs = <<>>

\* variant: parse is used in place of safeParse, a failure is thrown
FinishThrowing(c, frame, result) ==
  IF result.kind = "throw" \/ ~result.success
    THEN /\ calls' = [calls EXCEPT ![c] = [frame EXCEPT !.pc = "done",
                         !.settled = "rejected",
                         !.reason = IF result.kind = "throw" THEN result.thrown
                                    ELSE ErrorMessage(result.issues)]]
         /\ log' = log
    ELSE /\ calls' = [calls EXCEPT ![c] = [frame EXCEPT !.pc = "done",
                         !.settled = "fulfilled", !.value = Outcome(result)]]
         /\ log' = log

\* lines 28-40 run on a parse result, or the exception propagates
Finish(c, frame, result) ==
  IF result.kind = "throw"
    THEN /\ calls' = [calls EXCEPT ![c] = [frame EXCEPT !.pc = "done",
                         !.settled = "rejected", !.reason = result.thrown]]
         /\ log' = log
    ELSE /\ calls' = [calls EXCEPT ![c] = [frame EXCEPT !.pc = "done",
                         !.settled = "fulfilled", !.value = Outcome(result)]]
         /\ log' = log \o LogLines(c, result)

\* validate(validator, data, options) up to its first suspension point:
\* the synchronous path runs to the end, the asynchronous one stops at await
Invoke(c, v, d, o) ==
  /\ calls[c].pc = "idle"
  /\ \A b \in Calls : b < c => calls[b].pc # "idle"
  /\ LET frame == [Idle EXCEPT !.validator = v, !.data = d, !.options = o]
     IN  IF UseAsync(o)
           THEN /\ parseCalls' = [parseCalls EXCEPT ![c].async = @ + 1]
                /\ calls' = [calls EXCEPT ![c] = [frame EXCEPT !.pc = "awaiting"]]
                /\ log' = log
           ELSE /\ parseCalls' = [parseCalls EXCEPT ![c].sync = @ + 1]
                /\ Finish(c, frame, SafeParse(v, d))
  /\ UNCHANGED errs

\* the promise of safeParseAsync settles
Settle(c) ==
  /\ calls[c].pc = "awaiting"
  /\ calls' = [calls EXCEPT ![c].pc = "ready",
                 ![c].awaited = SafeParseAsync(ParseArgs(c).validator, ParseArgs(c).data)]
  /\ UNCHANGED <<log, parseCalls, errs>>

\* the call resumes after await and runs to its end
Resume(c) ==
  /\ calls[c].pc = "ready"
  /\ Finish(c, calls[c], calls[c].awaited)
  /\ UNCHANGED <<parseCalls, errs>>

(* ---------------------------- ExpressError ----------------------------- *)
Messages == {"Not found", "Unauthorized", ""}
StatusCodes == {-1, 0, 200, 404, 500}

DefaultStatusCode == 200

\* super(message)
Super(message) == [message |-> message]

\* the class fields, initialised when super returns
FieldInit(obj) ==
  [message |-> obj.message, statusCode |-> DefaultStatusCode, isOperational |-> FALSE]

\* variant: the statusCode argument is not stored
CtorBodyKeepDefault(obj, statusCode) == [obj EXCEPT !.isOperational = TRUE]

\* the constructor body after super
CtorBody(obj, statusCode) ==
  [obj EXCEPT !.statusCode = statusCode, !.isOperational = TRUE]

\* new ExpressError(message, statusCode)
ExpressError(message, statusCode) == CtorBody(FieldInit(Super(message)), statusCode)

\* variant: statusCode is a static field, shared by every instance
NewStatic(message, statusCode) ==
  /\ Len(errs) < MaxErrors
  /\ errs' = Append([i \in 1..Len(errs) |-> [errs[i] EXCEPT !.obj.statusCode = statusCode]],
                     [obj |-> ExpressError(message, statusCode),
                      args |-> <<message, statusCode>>])
  /\ UNCHANGED <<calls, log, parseCalls>>

\* a caller constructs an error
New(message, statusCode) ==
  /\ Len(errs) < MaxErrors
  /\ errs' = Append(errs, [obj |-> ExpressError(message, statusCode),
                            args |-> <<message, statusCode>>])
  /\ UNCHANGED <<calls, log, parseCalls>>

(* --------------------------- specifications ---------------------------- *)
Next ==
  \/ \E c \in Calls, v \in Validators, d \in Data, o \in Options : Invoke(c, v, d, o)
  \/ \E c \in Calls : Settle(c)
  \/ \E c \in Calls : Resume(c)

Spec == Init /\ [][Next]_vars

ErrNext == \E m \in Messages, s \in StatusCodes : New(m, s)

ErrSpec == Init /\ [][ErrNext]_vars

(* ------------------------------- claims -------------------------------- *)
Done(c) == calls[c].pc = "done"
Fulfilled(c) == Done(c) /\ calls[c].settled = "fulfilled"
Rejected(c) == Done(c) /\ calls[c].settled = "rejected"

\* the caller asked for the asynchronous path
Requested(c) == calls[c].options.given /\ calls[c].options.async

\* the answer of the parse operation the caller's options name
Reported(c) ==
  IF Requested(c) THEN SafeParseAsync(calls[c].validator, calls[c].data)
  ELSE SafeParse(calls[c].validator, calls[c].data)

ReportsSuccess(c) == Reported(c).kind = "result" /\ Reported(c).success
ReportsFailure(c) == Reported(c).kind = "result" /\ ~Reported(c).success

\* C1: a finished call whose parse operation reported success is fulfilled
\* with success = true and data equal to the validator's output, on the
\* synchronous and on the asynchronous path
C1_SuccessCarriesParsedOutput ==
  \A c \in Calls :
    Done(c) /\ ReportsSuccess(c) =>
      /\ calls[c].settled = "fulfilled"
      /\ calls[c].value = [success |-> TRUE, data |-> Reported(c).data]

\* a synchronous and an asynchronous call have both succeeded with an output
\* that differs from the raw input
C1_Witness ==
  \E c1, c2 \in Calls :
    /\ Done(c1) /\ ~Requested(c1) /\ ReportsSuccess(c1)
    /\ Done(c2) /\ Requested(c2) /\ ReportsSuccess(c2)
    /\ calls[c1].value.data # calls[c1].data
    /\ calls[c2].value.data # calls[c2].data

Indices(issues) == 1..Len(issues)

\* the paths that name a field, as the validator reported them
ReportedFieldPaths(issues) ==
  {issues[i].path : i \in {j \in Indices(issues) : Len(issues[j].path) > 0}}

\* the messages the validator reported at one path, in its order
MessagesAt(issues, path) ==
  LET at == SelectSeq([i \in Indices(issues) |-> i], LAMBDA i : issues[i].path = path)
  IN  [j \in 1..Len(at) |-> issues[at[j]].message]

\* the first segments of the reported paths
ReportedFields(issues) == {path[1] : path \in ReportedFieldPaths(issues)}

\* the messages the validator reported at or below one field, in its order
MessagesUnder(issues, field) ==
  LET at == SelectSeq([i \in Indices(issues) |-> i],
                      LAMBDA i : Len(issues[i].path) > 0 /\ issues[i].path[1] = field)
  IN  [j \in 1..Len(at) |-> issues[at[j]].message]

\* C2 as stated: a failed call returns message "Validation failed" and errors
\* with one entry for each field path the validator reported, holding the
\* messages reported at that path in order
C2_OneEntryPerReportedPath ==
  \A c \in Calls :
    Done(c) /\ ReportsFailure(c) =>
      /\ calls[c].settled = "fulfilled"
      /\ ~calls[c].value.success
      /\ calls[c].value.message = "Validation failed"
      /\ Cardinality(DOMAIN calls[c].value.errors)
           = Cardinality(ReportedFieldPaths(Reported(c).issues))
      /\ \A path \in ReportedFieldPaths(Reported(c).issues) :
           /\ path[1] \in DOMAIN calls[c].value.errors
           /\ calls[c].value.errors[path[1]] = MessagesAt(Reported(c).issues, path)

\* C2 amended: a failed call returns message "Validation failed" and errors
\* with one entry for each first path segment the validator reported, holding
\* the non-empty list of the messages reported at or below that field in the
\* validator's order; an issue with an empty path is under no key
C2_OneEntryPerTopLevelField ==
  \A c \in Calls :
    Done(c) /\ ReportsFailure(c) =>
      /\ calls[c].settled = "fulfilled"
      /\ ~calls[c].value.success
      /\ calls[c].value.message = "Validation failed"
      /\ DOMAIN calls[c].value.errors = ReportedFields(Reported(c).issues)
      /\ \A field \in DOMAIN calls[c].value.errors :
           /\ calls[c].value.errors[field] = MessagesUnder(Reported(c).issues, field)
           /\ Len(calls[c].value.errors[field]) > 0

\* a failed call whose validator reported two paths below one field, and a
\* failed call whose validator reported an issue with an empty path
C2_Witness ==
  \E c1, c2 \in Calls :
    /\ Fulfilled(c1) /\ ReportsFailure(c1)
    /\ Cardinality(ReportedFieldPaths(Reported(c1).issues))
         > Cardinality(DOMAIN calls[c1].value.errors)
    /\ \E field \in DOMAIN calls[c1].value.errors : Len(calls[c1].value.errors[field]) = 2
    /\ Fulfilled(c2) /\ ReportsFailure(c2)
    /\ \E i \in Indices(Reported(c2).issues) : Reported(c2).issues[i].path = <<>>
    /\ DOMAIN calls[c2].value.errors = {}

\* C3 as stated: the promise of a finished call is never rejected
C3_NeverRejects == \A c \in Calls : Done(c) => calls[c].settled = "fulfilled"

\* C3 amended: the promise is rejected exactly when the parse operation that
\* was invoked threw or rejected, and then with that error; when the parse
\* operation returned a result the promise is fulfilled, and a reported
\* failure ends in the Failure variant
C3_RejectsOnlyWhenParseThrows ==
  \A c \in Calls :
    Done(c) =>
      /\ calls[c].settled = "rejected" <=> Reported(c).kind = "throw"
      /\ calls[c].settled = "rejected" => calls[c].reason = Reported(c).thrown
      /\ calls[c].settled # "rejected" => calls[c].settled = "fulfilled"
      /\ ReportsFailure(c) => calls[c].settled = "fulfilled" /\ ~calls[c].value.success

\* one call on the input null has ended in Failure, another call is rejected
C3_Witness ==
  \E c1, c2 \in Calls :
    /\ Fulfilled(c1) /\ calls[c1].data = "null" /\ ~calls[c1].value.success
    /\ Rejected(c2) /\ calls[c2].reason = MsgAsyncInSync

\* C5: a call that has been made has invoked the asynchronous parse once and
\* the synchronous parse never when options.async is true, and the
\* synchronous parse once and the asynchronous parse never otherwise
C5_OneParsePerCall ==
  \A c \in Calls :
    /\ calls[c].pc = "idle" => parseCalls[c] = [sync |-> 0, async |-> 0]
    /\ calls[c].pc # "idle" =>
         parseCalls[c] = IF Requested(c) THEN [sync |-> 0, async |-> 1]
                         ELSE [sync |-> 1, async |-> 0]

\* a call without options and a call with async = true have both finished
C5_Witness ==
  \E c1, c2 \in Calls :
    /\ Done(c1) /\ ~calls[c1].options.given /\ parseCalls[c1].sync = 1
    /\ Done(c2) /\ Requested(c2) /\ parseCalls[c2].async = 1

\* the log entries a call has written
EntriesBy(c) == SelectSeq(log, LAMBDA e : e.by = c)

\* C6: a finished call whose parse reported failure has written one log
\* entry, which holds the validator's message, and is already in the log when
\* the Failure is returned; any other call has written none; no step changes
\* the validator, the data or the options of a call that has been made, or an
\* error object
C6_LogIsTheOnlyEffect ==
  /\ [](\A c \in Calls :
          /\ Done(c) /\ ReportsFailure(c) =>
               EntriesBy(c) = <<[args |-> <<"Validation failed:",
                                            ErrorMessage(Reported(c).issues)>>,
                                 by |-> c]>>
          /\ ~(Done(c) /\ ReportsFailure(c)) => EntriesBy(c) = <<>>)
  /\ [][/\ \A c \in Calls :
             calls[c].pc # "idle" =>
               /\ calls'[c].validator = calls[c].validator
               /\ calls'[c].data = calls[c].data
               /\ calls'[c].options = calls[c].options
        /\ errs' = errs
        /\ Len(log') >= Len(log)
        /\ SubSeq(log', 1, Len(log)) = log]_vars

\* a failed call and a successful call have both finished, with one entry
C6_Witness ==
  \E c1, c2 \in Calls :
    /\ Fulfilled(c1) /\ ReportsFailure(c1)
    /\ Fulfilled(c2) /\ ReportsSuccess(c2)
    /\ Len(log) = 1

\* what a finished call settled with
Settlement(c) ==
  [settled |-> calls[c].settled, value |-> calls[c].value, reason |-> calls[c].reason]

SameArguments(c1, c2) ==
  /\ calls[c1].validator = calls[c2].validator
  /\ calls[c1].data = calls[c2].data
  /\ calls[c1].options = calls[c2].options

Alone(c) ==
  LET r == Reported(c)
  IN  IF r.kind = "throw"
        THEN [settled |-> "rejected", value |-> Idle.value, reason |-> r.thrown]
        ELSE [settled |-> "fulfilled", reason |-> NoThrow,
              value |-> IF r.success THEN [success |-> TRUE, data |-> r.data]
                        ELSE [success |-> FALSE, message |-> "Validation failed",
                              errors |-> [f \in ReportedFields(r.issues) |->
                                            MessagesUnder(r.issues, f)]]]

\* C8: an asynchronous call that has finished, whatever calls overlapped it,
\* has settled as it would alone, and every log entry it wrote holds the
\* message of its own validator
C8_ConcurrentCallsIndependent ==
  \A c \in Calls :
    /\ Done(c) /\ Requested(c) => Settlement(c) = Alone(c)
    /\ Requested(c) =>
         \A i \in 1..Len(EntriesBy(c)) :
           EntriesBy(c)[i].args[2] = ErrorMessage(Reported(c).issues)

\* two asynchronous calls with different arguments overlap, and the one made
\* later has resumed first and failed while the earlier one is still suspended
C8_Witness ==
  \E c1, c2 \in Calls :
    /\ c1 < c2
    /\ Requested(c1) /\ calls[c1].pc = "ready"
    /\ Requested(c2) /\ Fulfilled(c2) /\ ReportsFailure(c2)
    /\ calls[c1].validator # calls[c2].validator
    /\ calls[c1].data # calls[c2].data
    /\ Len(EntriesBy(c2)) = 1

\* C9: two failed calls whose validators reported the same per-field errors
\* return equal values, whatever the validators' messages were, and the
\* returned message is the fixed text, not the validator's message
C9_FailureIndependentOfValidatorMessage ==
  \A c1, c2 \in Calls :
    /\ Done(c1) /\ ReportsFailure(c1) =>
         /\ calls[c1].value.message = "Validation failed"
         /\ calls[c1].value.message # ErrorMessage(Reported(c1).issues)
    /\ ( /\ Done(c1) /\ ReportsFailure(c1)
         /\ Done(c2) /\ ReportsFailure(c2)
         /\ \A f \in ReportedFields(Reported(c1).issues) \cup ReportedFields(Reported(c2).issues) :
              MessagesUnder(Reported(c1).issues, f) = MessagesUnder(Reported(c2).issues, f) )
       => calls[c1].value = calls[c2].value

\* two failed calls with the same per-field errors and different messages,
\* both of which were logged
C9_Witness ==
  \E c1, c2 \in Calls :
    /\ Fulfilled(c1) /\ ReportsFailure(c1)
    /\ Fulfilled(c2) /\ ReportsFailure(c2)
    /\ calls[c1].value.errors = calls[c2].value.errors
    /\ DOMAIN calls[c1].value.errors # {}
    /\ ErrorMessage(Reported(c1).issues) # ErrorMessage(Reported(c2).issues)
    /\ Len(log) = 2 /\ log[1].args[2] # log[2].args[2]

\* C4: the step that constructs an error from a message and a status code
\* adds an object with that message, that status code and isOperational true
C4_ConstructorStoresArguments ==
  [][\A m \in Messages, s \in StatusCodes :
       New(m, s) =>
         LET e == errs'[Len(errs')].obj
         IN  /\ e.message = m
             /\ e.statusCode = s
             /\ e.isOperational = TRUE
             /\ (e.statusCode = DefaultStatusCode => s = DefaultStatusCode)]_vars

\* errors have been constructed with a negative, a zero and a 404 status
C4_Witness ==
  /\ Len(errs) = MaxErrors
  /\ \E i, j \in 1..Len(errs) :
       /\ errs[i].obj.statusCode \in {-1, 0} /\ errs[i].obj.message = ""
       /\ errs[j].obj.statusCode = 404 /\ errs[j].obj.message = "Not found"
       /\ errs[i].obj.isOperational /\ errs[j].obj.isOperational

\* C10: every error that has been constructed has isOperational true and the
\* message and status code it was constructed with, and no step changes it
C10_ErrorImmutable ==
  /\ [](\A i \in 1..Len(errs) :
          /\ errs[i].obj.isOperational = TRUE
          /\ errs[i].obj.message = errs[i].args[1]
          /\ errs[i].obj.statusCode = errs[i].args[2])
  /\ [][\A i \in 1..Len(errs) : Len(errs') >= i /\ errs'[i] = errs[i]]_vars

\* an error constructed earlier is still as constructed after a later
\* construction with other arguments
C10_Witness ==
  /\ Len(errs) >= 2
  /\ errs[1].args # errs[2].args
  /\ errs[1].obj.statusCode # errs[2].obj.statusCode
  /\ errs[1].obj.message # errs[2].obj.message

====
